---- MODULE Spec2Model ----
(***************************************************************************)
(* Model of src/src/LinkConverter.tsx: the link classifier                 *)
(* (isProbablyGoogleLink, extractGoogleFileId), the URL builders, the      *)
(* resolver convertLink, the memoised result of DriveLinkConverterPage,    *)
(* and the page's handlers, effect, copy and timeouts.                     *)
(*                                                                         *)
(* A JavaScript string is modelled as the sequence of its UTF-16 code      *)
(* units.  An ASCII code unit is the one-character string holding it; a    *)
(* code unit outside ASCII is written "U+XXXX".  Notes and error messages  *)
(* are never inspected by the code and are kept as whole strings.          *)
(***************************************************************************)
EXTENDS Naturals, Sequences, FiniteSets

VARIABLES input, type, forceMsViewer, copied, r, result, effectPending,
          writes, timers, pasted

vars ==
  <<input, type, forceMsViewer, copied, r, result, effectPending, writes,
    timers, pasted>>

----------------------------------------------------------------------------
(* Code units *)

\* The printable ASCII code units, 0x20 .. 0x7E, in code order (the quotation
\* mark, the backslash and the grave accent written by their code).
Ascii == <<" ", "!", "U+0022", "#", "$", "%", "&", "'", "(", ")", "*", "+", ",", "-", ".", "/", "0", "1", "2", "3", "4", "5", "6", "7", "8", "9", ":", ";", "<", "=", ">", "?", "@", "A", "B", "C", "D", "E", "F", "G", "H", "I", "J", "K", "L", "M", "N", "O", "P", "Q", "R", "S", "T", "U", "V", "W", "X", "Y", "Z", "[", "U+005C", "]", "^", "_", "U+0060", "a", "b", "c", "d", "e", "f", "g", "h", "i", "j", "k", "l", "m", "n", "o", "p", "q", "r", "s", "t", "u", "v", "w", "x", "y", "z", "{", "|", "}", "~">>

AsciiIndex(c) == CHOOSE i \in 1..Len(Ascii) : Ascii[i] = c

\* The code units of the model outside ASCII: a no-break space, a letter with
\* an accent, the byte order mark, and the two halves of U+1F600.
NonAscii == {"U+00A0", "U+00E9", "U+FEFF", "U+D83D", "U+DE00"}

\* The numeric value of a code unit.
CodeOf(c) ==
  CASE c = "U+00A0" -> 160
    [] c = "U+00E9" -> 233
    [] c = "U+FEFF" -> 65279
    [] c = "U+D83D" -> 55357
    [] c = "U+DE00" -> 56832
    [] c = "\t" -> 9
    [] c = "\n" -> 10
    [] c = "\r" -> 13
    [] OTHER -> AsciiIndex(c) + 31

IsHighSurrogate(c) == c \in NonAscii /\ CodeOf(c) >= 55296 /\ CodeOf(c) <= 56319
IsLowSurrogate(c) == c \in NonAscii /\ CodeOf(c) >= 56320 /\ CodeOf(c) <= 57343

\* The code units String.prototype.trim removes (WhiteSpace and LineTerminator)
\* among the code units of the model.
WhiteSpace == {" ", "\t", "\n", "\r", "U+00A0", "U+FEFF"}

\* The character class [a-zA-Z0-9_-] of the identifier patterns.
IdClass ==
  { Ascii[i] : i \in 66..91 } \cup { Ascii[i] : i \in 34..59 }
    \cup { Ascii[i] : i \in 17..26 } \cup {"_", "-"}

\* The characters encodeURIComponent leaves alone: A-Z a-z 0-9 - _ . ! ~ * ' ( )
UriUnreserved ==
  { Ascii[i] : i \in 66..91 } \cup { Ascii[i] : i \in 34..59 }
    \cup { Ascii[i] : i \in 17..26 }
    \cup {"-", "_", ".", "!", "~", "*", "'", "(", ")"}

----------------------------------------------------------------------------
(* String primitives *)

\* String.prototype.trim: drop the whitespace at both ends.
RECURSIVE TrimStart(_)
TrimStart(s) ==
  IF s # <<>> /\ Head(s) \in WhiteSpace THEN TrimStart(Tail(s)) ELSE s

RECURSIVE TrimEnd(_)
TrimEnd(s) ==
  IF s # <<>> /\ s[Len(s)] \in WhiteSpace
    THEN TrimEnd(SubSeq(s, 1, Len(s) - 1))
    ELSE s

trim(s) == TrimEnd(TrimStart(s))

UpperCase == { Ascii[i] : i \in 34..59 }

LowerOf(c) == IF c \in UpperCase THEN Ascii[AsciiIndex(c) + 32] ELSE c

\* String.prototype.toLowerCase (every code unit of the model maps to one unit)
toLowerCase(s) == [i \in 1..Len(s) |-> LowerOf(s[i])]

\* String.prototype.includes
includes(s, sub) ==
  \E i \in 0..(Len(s) - Len(sub)) : \A k \in 1..Len(sub) : s[i + k] = sub[k]

\* A string | null value.
Null == [isNull |-> TRUE, str |-> <<>>]
Str(s) == [isNull |-> FALSE, str |-> s]
Truthy(v) == ~v.isNull /\ v.str # <<>>

----------------------------------------------------------------------------
(* Regular expressions  <literal prefix>([a-zA-Z0-9_-]+)                   *)
(* A pattern is the sequence of the character sets of its prefix; the      *)
(* capture group that follows is the same in all six.                      *)

Lit(s) == [i \in 1..Len(s) |-> {s[i]}]

PrefixAt(url, p, i) ==
  /\ i + Len(p) <= Len(url)
  /\ \A k \in 1..Len(p) : url[i + k - 1] \in p[k]
  /\ url[i + Len(p)] \in IdClass

\* Mutant of IdRun: the capture group written ([^?&]+), which runs on to the
\* next query delimiter.
RECURSIVE IdRun_ToQuery(_, _)
IdRun_ToQuery(url, i) ==
  IF i <= Len(url) /\ url[i] \notin {"?", "&"}
    THEN <<url[i]>> \o IdRun_ToQuery(url, i + 1)
    ELSE <<>>

\* Mutant of IdRun: the capture group written with a lazy quantifier, which
\* stops after one character.
IdRun_Lazy(url, i) == <<url[i]>>

\* The greedy run of identifier characters starting at position i.
RECURSIVE IdRun(_, _)
IdRun(url, i) ==
  IF i <= Len(url) /\ url[i] \in IdClass
    THEN <<url[i]>> \o IdRun(url, i + 1)
    ELSE <<>>

\* url.match(p): the leftmost match; its capture group 1.
match(url, p) ==
  LET starts == { i \in 1..Len(url) : PrefixAt(url, p, i) }
  IN  IF starts = {} THEN Null
      ELSE LET i == CHOOSE i \in starts : \A j \in starts : i <= j
           IN  Str(IdRun(url, i + Len(p)))

\* Mutant of patterns: the fifth pattern written &id=, without the question
\* mark.
patterns_AmpersandOnly ==
  << Lit(<<"/", "f", "i", "l", "e", "/", "d", "/">>),
     Lit(<<"/", "p", "r", "e", "s", "e", "n", "t", "a", "t", "i", "o", "n", "/", "d", "/">>),
     Lit(<<"/", "d", "o", "c", "u", "m", "e", "n", "t", "/", "d", "/">>),
     Lit(<<"/", "s", "p", "r", "e", "a", "d", "s", "h", "e", "e", "t", "s", "/", "d", "/">>),
     Lit(<<"&", "i", "d", "=">>),
     Lit(<<"/", "u", "c", "?", "i", "d", "=">>) >>

patterns ==
  << Lit(<<"/", "f", "i", "l", "e", "/", "d", "/">>),
     Lit(<<"/", "p", "r", "e", "s", "e", "n", "t", "a", "t", "i", "o", "n", "/", "d", "/">>),
     Lit(<<"/", "d", "o", "c", "u", "m", "e", "n", "t", "/", "d", "/">>),
     Lit(<<"/", "s", "p", "r", "e", "a", "d", "s", "h", "e", "e", "t", "s", "/", "d", "/">>),
     <<{"?", "&"}>> \o Lit(<<"i", "d", "=">>),
     Lit(<<"/", "u", "c", "?", "i", "d", "=">>) >>

\* Mutant of FirstMatch: the id= query pattern is tried before the path
\* patterns.
FirstMatch_QueryFirst(url, k) ==
  LET try(n) == match(url, patterns[n])
  IN  IF Truthy(try(5)) THEN try(5)
      ELSE IF Truthy(try(1)) THEN try(1)
      ELSE IF Truthy(try(2)) THEN try(2)
      ELSE IF Truthy(try(3)) THEN try(3)
      ELSE IF Truthy(try(4)) THEN try(4)
      ELSE IF Truthy(try(6)) THEN try(6)
      ELSE Null

\* The loop over the patterns, from pattern k on: the first truthy capture.
RECURSIVE FirstMatch(_, _)
FirstMatch(url, k) ==
  IF k > Len(patterns) THEN Null
  ELSE LET m == match(url, patterns[k])
       IN  IF Truthy(m) THEN m ELSE FirstMatch(url, k + 1)

extractGoogleFileId(in) ==
  LET url == trim(in)
  IN  IF url = <<>> THEN Null ELSE FirstMatch(url, 1)

isProbablyGoogleLink(in) ==
  LET s == toLowerCase(trim(in))
  IN  includes(s, <<"d", "r", "i", "v", "e", ".", "g", "o", "o", "g", "l", "e", ".", "c", "o", "m">>) \/ includes(s, <<"d", "o", "c", "s", ".", "g", "o", "o", "g", "l", "e", ".", "c", "o", "m">>)

----------------------------------------------------------------------------
(* encodeURIComponent *)

HexDigits == <<"0", "1", "2", "3", "4", "5", "6", "7", "8", "9", "A", "B", "C", "D", "E", "F">>

PercentByte(b) == <<"%", HexDigits[(b \div 16) + 1], HexDigits[(b % 16) + 1]>>

\* The UTF-8 bytes of a code point.
Utf8(cp) ==
  IF cp < 128 THEN <<cp>>
  ELSE IF cp < 2048 THEN <<192 + (cp \div 64), 128 + (cp % 64)>>
  ELSE IF cp < 65536
    THEN <<224 + (cp \div 4096), 128 + ((cp \div 64) % 64), 128 + (cp % 64)>>
  ELSE <<240 + (cp \div 262144), 128 + ((cp \div 4096) % 64),
         128 + ((cp \div 64) % 64), 128 + (cp % 64)>>

RECURSIVE PercentBytes(_)
PercentBytes(bs) ==
  IF bs = <<>> THEN <<>> ELSE PercentByte(Head(bs)) \o PercentBytes(Tail(bs))

\* A surrogate code unit that is not half of a pair: encodeURIComponent
\* throws a URIError on it.
LoneSurrogate(s, i) ==
  \/ IsHighSurrogate(s[i]) /\ ~(i < Len(s) /\ IsLowSurrogate(s[i + 1]))
  \/ IsLowSurrogate(s[i]) /\ ~(i > 1 /\ IsHighSurrogate(s[i - 1]))

\* What the code unit at position i adds to the encoding of s: itself, or the
\* percent-encoded UTF-8 bytes of its code point; a surrogate pair is encoded
\* at its first unit.
EncodeAt(s, i) ==
  IF s[i] \in UriUnreserved THEN <<s[i]>>
  ELSE IF IsHighSurrogate(s[i])
    THEN PercentBytes(Utf8((CodeOf(s[i]) - 55296) * 1024
                             + (CodeOf(s[i + 1]) - 56320) + 65536))
  ELSE IF IsLowSurrogate(s[i]) THEN <<>>
  ELSE PercentBytes(Utf8(CodeOf(s[i])))

\* The encodings of the units lo .. hi of s, one after the other.
RECURSIVE Encode(_, _, _)
Encode(s, lo, hi) ==
  IF lo > hi THEN <<>>
  ELSE IF lo = hi THEN EncodeAt(s, lo)
  ELSE LET mid == (lo + hi) \div 2
       IN  Encode(s, lo, mid) \o Encode(s, mid + 1, hi)

\* encodeURIComponent(s): the encoded string, or threw (a URIError).
encodeURIComponent(s) ==
  IF \E i \in 1..Len(s) : LoneSurrogate(s, i)
    THEN [threw |-> TRUE, str |-> <<>>]
    ELSE [threw |-> FALSE, str |-> Encode(s, 1, Len(s))]

----------------------------------------------------------------------------
(* URL builders *)

buildDriveDirectDownload(fileId) ==
  <<"h", "t", "t", "p", "s", ":", "/", "/", "d", "r", "i", "v", "e", ".", "g", "o", "o", "g", "l", "e", ".", "c", "o", "m", "/", "u", "c", "?", "e", "x", "p", "o", "r", "t", "=", "d", "o", "w", "n", "l", "o", "a", "d", "&", "i", "d", "=">> \o fileId

\* Mutant of buildDriveDirectView: the view link written with export=download.
buildDriveDirectView_AsDownload(fileId) == buildDriveDirectDownload(fileId)

buildDriveDirectView(fileId) ==
  <<"h", "t", "t", "p", "s", ":", "/", "/", "d", "r", "i", "v", "e", ".", "g", "o", "o", "g", "l", "e", ".", "c", "o", "m", "/", "u", "c", "?", "e", "x", "p", "o", "r", "t", "=", "v", "i", "e", "w", "&", "i", "d", "=">> \o fileId

buildSlidesExportPptx(fileId) ==
  <<"h", "t", "t", "p", "s", ":", "/", "/", "d", "o", "c", "s", ".", "g", "o", "o", "g", "l", "e", ".", "c", "o", "m", "/", "p", "r", "e", "s", "e", "n", "t", "a", "t", "i", "o", "n", "/", "d", "/">> \o fileId \o <<"/", "e", "x", "p", "o", "r", "t", "/", "p", "p", "t", "x">>

buildSlidesEmbed(fileId) ==
  <<"h", "t", "t", "p", "s", ":", "/", "/", "d", "o", "c", "s", ".", "g", "o", "o", "g", "l", "e", ".", "c", "o", "m", "/", "p", "r", "e", "s", "e", "n", "t", "a", "t", "i", "o", "n", "/", "d", "/">> \o fileId
    \o <<"/", "e", "m", "b", "e", "d", "?", "s", "t", "a", "r", "t", "=", "f", "a", "l", "s", "e", "&", "l", "o", "o", "p", "=", "f", "a", "l", "s", "e", "&", "d", "e", "l", "a", "y", "m", "s", "=", "3", "0", "0", "0">>

\* The two viewers return the URL, or threw when encodeURIComponent throws.
buildDocsViewer(urlToFile) ==
  LET e == encodeURIComponent(urlToFile)
  IN  [threw |-> e.threw,
       str |-> IF e.threw THEN <<>>
               ELSE <<"h", "t", "t", "p", "s", ":", "/", "/", "d", "o", "c", "s", ".", "g", "o", "o", "g", "l", "e", ".", "c", "o", "m", "/", "g", "v", "i", "e", "w", "?", "e", "m", "b", "e", "d", "d", "e", "d", "=", "t", "r", "u", "e", "&", "u", "r", "l", "=">> \o e.str]

buildMicrosoftOfficeViewer(urlToFile) ==
  LET e == encodeURIComponent(urlToFile)
  IN  [threw |-> e.threw,
       str |-> IF e.threw THEN <<>>
               ELSE <<"h", "t", "t", "p", "s", ":", "/", "/", "v", "i", "e", "w", ".", "o", "f", "f", "i", "c", "e", "a", "p", "p", "s", ".", "l", "i", "v", "e", ".", "c", "o", "m", "/", "o", "p", "/", "e", "m", "b", "e", "d", ".", "a", "s", "p", "x", "?", "s", "r", "c", "=">> \o e.str]

----------------------------------------------------------------------------
(* convertLink *)

FILE_TYPES == {"ppt", "pdf", "image", "video", "audio"}

\* A call that ends in an exception returns no ConvertResult.
Thrown == [threw |-> "URIError"]

\* A ConvertResult holds the keys the returned object literal has.
Has(res, key) == key \in DOMAIN res

\* Mutant of PdfExportUrl: the link is searched as typed, not lowercased.
PdfExportUrl_NoLowercase(raw, id) ==
  IF includes(raw, <<"d", "o", "c", "s", ".", "g", "o", "o", "g", "l", "e", ".", "c", "o", "m", "/", "p", "r", "e", "s", "e", "n", "t", "a", "t", "i", "o", "n">>)
    THEN <<"h", "t", "t", "p", "s", ":", "/", "/", "d", "o", "c", "s", ".", "g", "o", "o", "g", "l", "e", ".", "c", "o", "m", "/", "p", "r", "e", "s", "e", "n", "t", "a", "t", "i", "o", "n", "/", "d", "/">> \o id \o <<"/", "e", "x", "p", "o", "r", "t", "/", "p", "d", "f">>
  ELSE IF includes(raw, <<"d", "o", "c", "s", ".", "g", "o", "o", "g", "l", "e", ".", "c", "o", "m", "/", "d", "o", "c", "u", "m", "e", "n", "t">>)
    THEN <<"h", "t", "t", "p", "s", ":", "/", "/", "d", "o", "c", "s", ".", "g", "o", "o", "g", "l", "e", ".", "c", "o", "m", "/", "d", "o", "c", "u", "m", "e", "n", "t", "/", "d", "/">> \o id \o <<"/", "e", "x", "p", "o", "r", "t", "?", "f", "o", "r", "m", "a", "t", "=", "p", "d", "f">>
  ELSE buildDriveDirectDownload(id)

\* The pdf export URL of a Google link: the default, then the override by the
\* product the lowercased link names.
PdfExportUrl(raw, id) ==
  LET lower == toLowerCase(raw)
  IN  IF includes(lower, <<"d", "o", "c", "s", ".", "g", "o", "o", "g", "l", "e", ".", "c", "o", "m", "/", "p", "r", "e", "s", "e", "n", "t", "a", "t", "i", "o", "n">>)
        THEN <<"h", "t", "t", "p", "s", ":", "/", "/", "d", "o", "c", "s", ".", "g", "o", "o", "g", "l", "e", ".", "c", "o", "m", "/", "p", "r", "e", "s", "e", "n", "t", "a", "t", "i", "o", "n", "/", "d", "/">> \o id \o <<"/", "e", "x", "p", "o", "r", "t", "/", "p", "d", "f">>
      ELSE IF includes(lower, <<"d", "o", "c", "s", ".", "g", "o", "o", "g", "l", "e", ".", "c", "o", "m", "/", "d", "o", "c", "u", "m", "e", "n", "t">>)
        THEN <<"h", "t", "t", "p", "s", ":", "/", "/", "d", "o", "c", "s", ".", "g", "o", "o", "g", "l", "e", ".", "c", "o", "m", "/", "d", "o", "c", "u", "m", "e", "n", "t", "/", "d", "/">> \o id \o <<"/", "e", "x", "p", "o", "r", "t", "?", "f", "o", "r", "m", "a", "t", "=", "p", "d", "f">>
      ELSE IF includes(lower, <<"d", "o", "c", "s", ".", "g", "o", "o", "g", "l", "e", ".", "c", "o", "m", "/", "s", "p", "r", "e", "a", "d", "s", "h", "e", "e", "t", "s">>)
        THEN buildDriveDirectDownload(id)
      ELSE buildDriveDirectDownload(id)

\* The branch for an input that is not a Google link: raw is the direct URL.
ConvertDirect(direct, t) ==
  IF t = "ppt"
    THEN LET v == buildMicrosoftOfficeViewer(direct)
         IN  IF v.threw THEN Thrown
             ELSE [exportUrl |-> direct,
                   previewUrl |-> v.str,
                   notes |-> <<"This is not a Google Drive link. Using it as-is.",
                               "For PPT preview, the URL must be publicly accessible.">>]
  ELSE IF t = "pdf"
    THEN LET v == buildDocsViewer(direct)
         IN  IF v.threw THEN Thrown
             ELSE [exportUrl |-> direct,
                   previewUrl |-> v.str,
                   notes |-> <<"This is not a Google Drive link. Using it as-is.",
                               "If the PDF doesn't render, ensure the link is public and allows direct access.">>]
  ELSE [exportUrl |-> direct,
        previewUrl |-> direct,
        notes |-> <<"This is not a Google Drive link. Using it as-is.">>]

\* Mutant of ConvertGoogle: the pdf preview is built from the default export
\* URL, before the override by product.
ConvertGoogle_PreviewFromDefault(raw, id, t) ==
  CASE t = "ppt" ->
         [fileId |-> id,
          exportUrl |-> buildSlidesExportPptx(id),
          embedUrl |-> buildSlidesEmbed(id),
          previewUrl |-> buildSlidesEmbed(id),
          notes |-> <<"Export URL downloads as PPTX.",
                      "Preview uses Google Slides embed.",
                      "If you want PPT-style preview, switch to Microsoft viewer (provided below).">>]
    [] t = "pdf" ->
         LET exportUrl == PdfExportUrl(raw, id)
             v == buildDocsViewer(buildDriveDirectDownload(id))
         IN  IF v.threw THEN Thrown
             ELSE [fileId |-> id,
                   exportUrl |-> exportUrl,
                   previewUrl |-> v.str,
                   notes |-> <<"Preview uses Google Docs Viewer.",
                               "Make sure the file is shared publicly (Anyone with the link -> Viewer).">>]
    [] t = "image" ->
         [fileId |-> id,
          exportUrl |-> buildDriveDirectView(id),
          previewUrl |-> buildDriveDirectView(id),
          notes |-> <<"This works best when the Drive file is actually an image.",
                      "If it fails, your file may not be an image or it may not be public.">>]
    [] t = "video" ->
         [fileId |-> id,
          exportUrl |-> buildDriveDirectDownload(id),
          previewUrl |-> buildDriveDirectDownload(id),
          notes |-> <<"For Drive videos, direct playback depends on CORS and file permissions.",
                      "If it doesn't play, try hosting on a CDN or use a streaming server.">>]
    [] t = "audio" ->
         [fileId |-> id,
          exportUrl |-> buildDriveDirectDownload(id),
          previewUrl |-> buildDriveDirectDownload(id),
          notes |-> <<"For Drive audio, direct playback depends on permissions and browser support.">>]
    [] OTHER -> [error |-> "Unsupported type."]

\* Mutant of ConvertGoogle: the ppt preview is the Microsoft viewer.
ConvertGoogle_PptOffice(raw, id, t) ==
  CASE t = "ppt" ->
         [fileId |-> id,
          exportUrl |-> buildSlidesExportPptx(id),
          embedUrl |-> buildSlidesEmbed(id),
          previewUrl |-> buildMicrosoftOfficeViewer(buildSlidesExportPptx(id)).str,
          notes |-> <<"Export URL downloads as PPTX.",
                      "Preview uses Google Slides embed.",
                      "If you want PPT-style preview, switch to Microsoft viewer (provided below).">>]
    [] t = "pdf" ->
         LET exportUrl == PdfExportUrl(raw, id)
             v == buildDocsViewer(exportUrl)
         IN  IF v.threw THEN Thrown
             ELSE [fileId |-> id,
                   exportUrl |-> exportUrl,
                   previewUrl |-> v.str,
                   notes |-> <<"Preview uses Google Docs Viewer.",
                               "Make sure the file is shared publicly (Anyone with the link -> Viewer).">>]
    [] t = "image" ->
         [fileId |-> id,
          exportUrl |-> buildDriveDirectView(id),
          previewUrl |-> buildDriveDirectView(id),
          notes |-> <<"This works best when the Drive file is actually an image.",
                      "If it fails, your file may not be an image or it may not be public.">>]
    [] t = "video" ->
         [fileId |-> id,
          exportUrl |-> buildDriveDirectDownload(id),
          previewUrl |-> buildDriveDirectDownload(id),
          notes |-> <<"For Drive videos, direct playback depends on CORS and file permissions.",
                      "If it doesn't play, try hosting on a CDN or use a streaming server.">>]
    [] t = "audio" ->
         [fileId |-> id,
          exportUrl |-> buildDriveDirectDownload(id),
          previewUrl |-> buildDriveDirectDownload(id),
          notes |-> <<"For Drive audio, direct playback depends on permissions and browser support.">>]
    [] OTHER -> [error |-> "Unsupported type."]

\* The switch over the type for a Google link with file id `id`.
ConvertGoogle(raw, id, t) ==
  CASE t = "ppt" ->
         [fileId |-> id,
          exportUrl |-> buildSlidesExportPptx(id),
          embedUrl |-> buildSlidesEmbed(id),
          previewUrl |-> buildSlidesEmbed(id),
          notes |-> <<"Export URL downloads as PPTX.",
                      "Preview uses Google Slides embed.",
                      "If you want PPT-style preview, switch to Microsoft viewer (provided below).">>]
    [] t = "pdf" ->
         LET exportUrl == PdfExportUrl(raw, id)
             v == buildDocsViewer(exportUrl)
         IN  IF v.threw THEN Thrown
             ELSE [fileId |-> id,
                   exportUrl |-> exportUrl,
                   previewUrl |-> v.str,
                   notes |-> <<"Preview uses Google Docs Viewer.",
                               "Make sure the file is shared publicly (Anyone with the link -> Viewer).">>]
    [] t = "image" ->
         [fileId |-> id,
          exportUrl |-> buildDriveDirectView(id),
          previewUrl |-> buildDriveDirectView(id),
          notes |-> <<"This works best when the Drive file is actually an image.",
                      "If it fails, your file may not be an image or it may not be public.">>]
    [] t = "video" ->
         [fileId |-> id,
          exportUrl |-> buildDriveDirectDownload(id),
          previewUrl |-> buildDriveDirectDownload(id),
          notes |-> <<"For Drive videos, direct playback depends on CORS and file permissions.",
                      "If it doesn't play, try hosting on a CDN or use a streaming server.">>]
    [] t = "audio" ->
         [fileId |-> id,
          exportUrl |-> buildDriveDirectDownload(id),
          previewUrl |-> buildDriveDirectDownload(id),
          notes |-> <<"For Drive audio, direct playback depends on permissions and browser support.">>]
    [] OTHER -> [error |-> "Unsupported type."]

\* Mutant of convertLink: the direct-URL branch is taken before the file id is
\* looked at.
convertLink_DirectFirst(in, t) ==
  LET raw == trim(in)
      google == isProbablyGoogleLink(raw)
      fileId == IF google THEN extractGoogleFileId(raw) ELSE Null
  IN  IF raw = <<>> THEN [error |-> "Paste a link first."]
      ELSE IF ~google \/ ~Truthy(fileId) THEN ConvertDirect(raw, t)
      ELSE ConvertGoogle(raw, fileId.str, t)

\* Mutant of convertLink: the direct URL is the input as typed, not trimmed.
convertLink_Untrimmed(in, t) ==
  LET raw == trim(in)
      google == isProbablyGoogleLink(raw)
      fileId == IF google THEN extractGoogleFileId(raw) ELSE Null
  IN  IF raw = <<>> THEN [error |-> "Paste a link first."]
      ELSE IF google /\ ~Truthy(fileId)
        THEN [error |-> "This looks like a Google link, but I couldn't extract the file ID. Please paste a full Drive/Docs link."]
      ELSE IF ~google THEN ConvertDirect(in, t)
      ELSE ConvertGoogle(raw, fileId.str, t)

convertLink(in, t) ==
  LET raw == trim(in)
      google == isProbablyGoogleLink(raw)
      fileId == IF google THEN extractGoogleFileId(raw) ELSE Null
  IN  IF raw = <<>> THEN [error |-> "Paste a link first."]
      ELSE IF google /\ ~Truthy(fileId)
        THEN [error |-> "This looks like a Google link, but I couldn't extract the file ID. Please paste a full Drive/Docs link."]
      ELSE IF ~google THEN ConvertDirect(raw, t)
      ELSE ConvertGoogle(raw, fileId.str, t)

\* Mutant of MemoResult: the toggle is applied without looking for an export
\* URL.
MemoResult_NoExportGuard(res, t, force) ==
  IF t = "ppt" /\ force
    THEN [k \in DOMAIN res \cup {"previewUrl", "notes"} |->
           IF k = "previewUrl"
             THEN buildMicrosoftOfficeViewer(
                    IF Has(res, "exportUrl") THEN res.exportUrl ELSE <<"u", "n", "d", "e", "f", "i", "n", "e", "d">>).str
           ELSE IF k = "notes"
             THEN (IF Has(res, "notes") THEN res.notes ELSE <<>>)
                    \o <<"Microsoft viewer enabled for preview.">>
           ELSE res[k]]
  ELSE res

\* Mutant of MemoResult: the toggle is applied whatever the selected type.
MemoResult_AnyType(res, t, force) ==
  IF Has(res, "threw") THEN res
  ELSE IF force /\ Has(res, "exportUrl") /\ res.exportUrl # <<>>
    THEN LET v == buildMicrosoftOfficeViewer(res.exportUrl)
             notes == (IF Has(res, "notes") THEN res.notes ELSE <<>>)
                        \o <<"Microsoft viewer enabled for preview.">>
         IN  IF v.threw THEN Thrown
             ELSE [k \in DOMAIN res \cup {"previewUrl", "notes"} |->
                    IF k = "previewUrl" THEN v.str
                    ELSE IF k = "notes" THEN notes
                    ELSE res[k]]
  ELSE res

\* The body of the useMemo of DriveLinkConverterPage after its call of
\* convertLink: res is what the call returned.  A ppt with the toggle on gets
\* the Microsoft viewer as preview and one more note.
MemoResult(res, t, force) ==
  IF Has(res, "threw") THEN res
  ELSE IF t = "ppt" /\ force /\ Has(res, "exportUrl") /\ res.exportUrl # <<>>
    THEN LET v == buildMicrosoftOfficeViewer(res.exportUrl)
             notes == (IF Has(res, "notes") THEN res.notes ELSE <<>>)
                        \o <<"Microsoft viewer enabled for preview.">>
         IN  IF v.threw THEN Thrown
             ELSE [k \in DOMAIN res \cup {"previewUrl", "notes"} |->
                    IF k = "previewUrl" THEN v.str
                    ELSE IF k = "notes" THEN notes
                    ELSE res[k]]
  ELSE res

----------------------------------------------------------------------------
(* The links pasted into the input box *)

\* The longest identifier of a pasted link.
MaxIdLen == 2

\* Sample identifiers: the start of the identifier of the page's initial link,
\* one that begins with the hyphen and the underscore, one that begins with
\* letters of both cases.
IdSamples == { <<"1", "K", "o", "c", "Q", "Y", "1", "Q", "3", "r">>, <<"-", "_", "z", "A", "0", "9">>, <<"Q", "b", "-", "7">> }

\* The identifiers pasted: the samples cut to 1 .. MaxIdLen characters.
Ids == { SubSeq(s, 1, n) : s \in IdSamples, n \in 1..MaxIdLen }

\* Whitespace around the pasted text: none, or some on both sides.
Pads == { <<<<>>, <<>>>>, <<<<" ", "\t">>, <<"\n", "U+00A0">>>> }

GoogleHosts ==
  { <<"h", "t", "t", "p", "s", ":", "/", "/", "d", "r", "i", "v", "e", ".", "g", "o", "o", "g", "l", "e", ".", "c", "o", "m">>,
    <<"h", "t", "t", "p", "s", ":", "/", "/", "d", "o", "c", "s", ".", "g", "o", "o", "g", "l", "e", ".", "c", "o", "m">>,
    <<"H", "T", "T", "P", "S", ":", "/", "/", "D", "o", "c", "s", ".", "G", "o", "o", "g", "l", "e", ".", "C", "O", "M">> }

DirectHosts == { <<"h", "t", "t", "p", "s", ":", "/", "/", "e", "x", "a", "m", "p", "l", "e", ".", "c", "o", "m">> }

\* The six URL shapes in the order of `patterns`; the fifth has two forms.
ShapePaths ==
  << {<<"/", "f", "i", "l", "e", "/", "d", "/">>},
     {<<"/", "p", "r", "e", "s", "e", "n", "t", "a", "t", "i", "o", "n", "/", "d", "/">>},
     {<<"/", "d", "o", "c", "u", "m", "e", "n", "t", "/", "d", "/">>},
     {<<"/", "s", "p", "r", "e", "a", "d", "s", "h", "e", "e", "t", "s", "/", "d", "/">>},
     {<<"/", "o", "p", "e", "n", "?", "i", "d", "=">>, <<"/", "o", "p", "e", "n", "?", "a", "=", "1", "&", "i", "d", "=">>},
     {<<"/", "u", "c", "?", "i", "d", "=">>} >>

\* Paths no pattern matches: a shape in capitals, and a path with no shape.
OtherPaths == { <<"/", "F", "I", "L", "E", "/", "D", "/">>, <<"/", "w", "e", "i", "r", "d", "/">> }

Paths == UNION { ShapePaths[k] : k \in 1..Len(ShapePaths) } \cup OtherPaths

\* What follows the identifier: nothing, more path and query, or path and
\* query that hold another identifier, K.
TrailEdit == <<"/", "e", "d", "i", "t", "?", "u", "s", "p", "=", "d", "r", "i", "v", "e", "_", "l", "i", "n", "k">>
TrailFile == <<"/", "f", "i", "l", "e", "/", "d", "/", "K">>
TrailQuery == <<"&", "i", "d", "=", "K">>
TrailSlides == <<"?", "s", "r", "c", "=", "d", "o", "c", "s", ".", "g", "o", "o", "g", "l", "e", ".", "c", "o", "m", "/", "p", "r", "e", "s", "e", "n", "t", "a", "t", "i", "o", "n", "/", "d", "/", "K">>

Trails == { <<>>, TrailEdit, TrailFile, TrailQuery, TrailSlides }

\* Texts that are no link with an identifier.
PlainTexts ==
  { <<>>,
    <<"h", "t", "t", "p", "s", ":", "/", "/", "d", "r", "i", "v", "e", ".", "g", "o", "o", "g", "l", "e", ".", "c", "o", "m">>,
    <<"h", "t", "t", "p", "s", ":", "/", "/", "e", "x", "a", "m", "p", "l", "e", ".", "c", "o", "m", "/", "a", " ", "b", ".", "p", "n", "g">>,
    <<"h", "U+00E9", "/", "U+D83D", "U+DE00">>,
    <<"x", "U+D83D">>,
    <<"U+DE00", "x">> }

PastedLinks ==
  { [lead |-> pad[1], host |-> h, path |-> p, id |-> x, trail |-> t, tail |-> pad[2]] :
      pad \in Pads, h \in GoogleHosts \cup DirectHosts, p \in Paths,
      x \in Ids, t \in Trails }
  \cup
  { [lead |-> pad[1], host |-> h, path |-> <<>>, id |-> <<>>, trail |-> <<>>, tail |-> pad[2]] :
      pad \in Pads, h \in PlainTexts }

TextOf(l) == l.lead \o l.host \o l.path \o l.id \o l.trail \o l.tail

----------------------------------------------------------------------------
(* The specification: any pasted link, any type, either toggle state; the  *)
(* page computes its result.                                               *)

\* r and result before the memo has run.
Pending == [pending |-> TRUE]

Init ==
  /\ pasted \in PastedLinks
  /\ input = TextOf(pasted)
  /\ type \in FILE_TYPES
  /\ forceMsViewer \in BOOLEAN
  /\ copied = FALSE
  /\ r = Pending
  /\ result = Pending
  /\ effectPending = FALSE
  /\ writes = 0
  /\ timers = 0

\* The useMemo callback: call convertLink, then apply the toggle.
Render ==
  /\ result = Pending
  /\ r' = convertLink(input, type)
  /\ result' = MemoResult(r', type, forceMsViewer)
  /\ UNCHANGED <<input, type, forceMsViewer, copied, effectPending, writes,
                 timers, pasted>>

Next == Render

Spec == Init /\ [][Next]_vars

----------------------------------------------------------------------------
(* The page DriveLinkConverterPage: its state is type, input, copied and   *)
(* forceMsViewer, and result is what its last render computed.  A state    *)
(* update from a handler renders the page again; the effect on type is     *)
(* left pending by a render in which type changed and runs before the page *)
(* handles anything else.  writes counts the clipboard writes copy() waits *)
(* on, timers the 1200 ms timeouts not yet fired.                          *)

\* The copies under way at one time (clipboard writes and timeouts).
MaxCopies == 2

\* A pasted text with no whitespace around it.
Link(h, p, x, t) ==
  [lead |-> <<>>, host |-> h, path |-> p, id |-> x, trail |-> t, tail |-> <<>>]

\* The link the input box holds when the page opens.
DefaultLink ==
  Link(<<"h", "t", "t", "p", "s", ":", "/", "/", "d", "o", "c", "s", ".", "g", "o", "o", "g", "l", "e", ".", "c", "o", "m">>,
       <<"/", "p", "r", "e", "s", "e", "n", "t", "a", "t", "i", "o", "n", "/", "d", "/">>,
       <<"1", "K", "o", "c", "Q", "Y", "1", "Q", "3", "r", "Q", "f", "Z", "G", "l", "8", "B", "T", "N", "S", "G", "8", "f", "E", "q", "G", "h", "-", "X", "p", "U", "q", "0">>,
       <<"/", "e", "d", "i", "t", "?", "u", "s", "p", "=", "d", "r", "i", "v", "e", "_", "l", "i", "n", "k", "&", "o", "u", "i", "d", "=", "1", "1", "5", "5", "5", "0", "8", "3", "5", "6", "1", "6", "3", "5", "0", "3", "8", "8", "6", "1", "2", "&", "r", "t", "p", "o", "f", "=", "t", "r", "u", "e", "&", "s", "d", "=", "t", "r", "u", "e">>)

\* What the user puts into the input box: the default link, a Drive file
\* link, a link that is not Google's, a Google link without identifier, a
\* text with a lone surrogate, and nothing.
PageInputs ==
  { DefaultLink,
    Link(<<"h", "t", "t", "p", "s", ":", "/", "/", "d", "r", "i", "v", "e", ".", "g", "o", "o", "g", "l", "e", ".", "c", "o", "m">>, <<"/", "f", "i", "l", "e", "/", "d", "/">>, <<"Q", "b">>, TrailEdit),
    Link(<<"h", "t", "t", "p", "s", ":", "/", "/", "e", "x", "a", "m", "p", "l", "e", ".", "c", "o", "m">>, <<"/", "w", "e", "i", "r", "d", "/">>, <<"Q", "b">>, <<>>),
    Link(<<"h", "t", "t", "p", "s", ":", "/", "/", "d", "r", "i", "v", "e", ".", "g", "o", "o", "g", "l", "e", ".", "c", "o", "m">>, <<>>, <<>>, <<>>),
    Link(<<"x", "U+D83D">>, <<>>, <<>>, <<>>),
    Link(<<>>, <<>>, <<>>, <<>>) }

\* A render whose useMemo callback threw takes the page down: nothing is
\* displayed and no handler is left to call.
Mounted == ~Has(result, "threw")

\* The page takes the next event: it is displayed and its effects have run.
Interactive == Mounted /\ ~effectPending

\* A render with state (i, t, f): the useMemo callback runs again.
Rerender(i, t, f) ==
  /\ r' = convertLink(i, t)
  /\ result' = MemoResult(r', t, f)

\* The page as it opens: the initial state and the first render, with the
\* effect of the mount still to run.
PageInit ==
  /\ pasted = DefaultLink
  /\ input = TextOf(pasted)
  /\ type = "ppt"
  /\ copied = FALSE
  /\ forceMsViewer = FALSE
  /\ r = convertLink(input, type)
  /\ result = MemoResult(r, type, forceMsViewer)
  /\ effectPending = TRUE
  /\ writes = 0
  /\ timers = 0

\* A click on a type button: setType(t.key).  Choosing the selected type
\* again changes nothing and renders nothing.
SelectType(t) ==
  /\ Interactive
  /\ t # type
  /\ type' = t
  /\ Rerender(input, t, forceMsViewer)
  /\ effectPending' = Mounted'
  /\ UNCHANGED <<input, forceMsViewer, copied, writes, timers, pasted>>

\* Mutant of TypeEffect: the effect runs and resets nothing.
TypeEffect_NoReset ==
  /\ Mounted
  /\ effectPending
  /\ effectPending' = FALSE
  /\ UNCHANGED <<input, type, forceMsViewer, copied, r, result, writes, timers,
                 pasted>>

\* The effect on type: away from ppt the toggle is switched off, which renders
\* the page again when it was on.
TypeEffect ==
  /\ Mounted
  /\ effectPending
  /\ effectPending' = FALSE
  /\ IF type # "ppt" /\ forceMsViewer
       THEN /\ forceMsViewer' = FALSE
            /\ Rerender(input, type, FALSE)
       ELSE UNCHANGED <<forceMsViewer, r, result>>
  /\ UNCHANGED <<input, type, copied, writes, timers, pasted>>

\* A click on the Microsoft viewer toggle, which is on the page for ppt only.
ToggleMsViewer ==
  /\ Interactive
  /\ type = "ppt"
  /\ forceMsViewer' = ~forceMsViewer
  /\ Rerender(input, type, forceMsViewer')
  /\ UNCHANGED <<input, type, copied, effectPending, writes, timers, pasted>>

\* An edit of the input box: setInput(e.target.value).
SetInput(l) ==
  /\ Interactive
  /\ TextOf(l) # input
  /\ pasted' = l
  /\ input' = TextOf(l)
  /\ Rerender(input', type, forceMsViewer)
  /\ UNCHANGED <<type, forceMsViewer, copied, effectPending, writes, timers>>

\* A click on Reset.
reset ==
  /\ Interactive
  /\ input' = <<>>
  /\ pasted' = Link(<<>>, <<>>, <<>>, <<>>)
  /\ copied' = FALSE
  /\ Rerender(input', type, forceMsViewer)
  /\ UNCHANGED <<type, forceMsViewer, effectPending, writes, timers>>

\* copy(text) up to its await: the clipboard write is started; where the
\* browser gives the page no navigator.clipboard the call throws at once and
\* the catch block runs in the click itself.
copy ==
  /\ writes + timers < MaxCopies
  /\ \E clipboard \in BOOLEAN :
       IF clipboard
         THEN /\ writes' = writes + 1
              /\ UNCHANGED <<copied, timers>>
         ELSE /\ copied' = TRUE
              /\ timers' = timers + 1
              /\ UNCHANGED writes
  /\ UNCHANGED <<input, type, forceMsViewer, r, result, effectPending, pasted>>

\* const outputUrl = result.exportUrl ?? ""
outputUrl == IF Has(result, "exportUrl") THEN result.exportUrl ELSE <<>>

\* A click on the copy button of the export URL, disabled without one.
CopyExportClick ==
  /\ Interactive
  /\ outputUrl # <<>>
  /\ copy

\* A click on the copy button of the preview, shown with a preview URL only.
CopyPreviewClick ==
  /\ Interactive
  /\ Has(result, "previewUrl") /\ result.previewUrl # <<>>
  /\ copy

\* What setCopied does to the indicator: nothing once the page is down.
SetCopied(v) == copied' = IF Mounted THEN v ELSE copied

\* copy() after its await, the write fulfilled: the indicator is set and its
\* timeout started.
CopyResolved ==
  /\ ~effectPending
  /\ writes > 0
  /\ writes' = writes - 1
  /\ SetCopied(TRUE)
  /\ timers' = timers + 1
  /\ UNCHANGED <<input, type, forceMsViewer, r, result, effectPending, pasted>>

\* Mutant of CopyRejected: the catch block sets the indicator and starts no
\* timeout.
CopyRejected_NoTimeout ==
  /\ ~effectPending
  /\ writes > 0
  /\ writes' = writes - 1
  /\ SetCopied(TRUE)
  /\ UNCHANGED <<input, type, forceMsViewer, r, result, effectPending, timers,
                 pasted>>

\* copy() after its await, the write rejected: the catch block copies through
\* a textarea, sets the indicator and starts its timeout.
CopyRejected ==
  /\ ~effectPending
  /\ writes > 0
  /\ writes' = writes - 1
  /\ SetCopied(TRUE)
  /\ timers' = timers + 1
  /\ UNCHANGED <<input, type, forceMsViewer, r, result, effectPending, pasted>>

\* A timeout fires, 1200 ms after its copy: setCopied(false).
TimerFires ==
  /\ ~effectPending
  /\ timers > 0
  /\ timers' = timers - 1
  /\ SetCopied(FALSE)
  /\ UNCHANGED <<input, type, forceMsViewer, r, result, effectPending, writes,
                 pasted>>

PageNext ==
  \/ \E t \in FILE_TYPES : SelectType(t)
  \/ TypeEffect
  \/ ToggleMsViewer
  \/ \E l \in PageInputs : SetInput(l)
  \/ reset
  \/ CopyExportClick
  \/ CopyPreviewClick
  \/ CopyResolved
  \/ CopyRejected
  \/ TimerFires

PageSpec == PageInit /\ [][PageNext]_vars

----------------------------------------------------------------------------
(* What the claims read off a state *)

Rendered == ~Has(result, "pending")

IsError(res) == Has(res, "error")
Threw(res) == Has(res, "threw")
Resolved(res) == ~IsError(res) /\ ~Threw(res)

MediaTypes == {"image", "video", "audio"}

EmptyInputError == "Paste a link first."
MalformedGoogleError ==
  "This looks like a Google link, but I couldn't extract the file ID. Please paste a full Drive/Docs link."

\* The pasted text without the whitespace around it.
CoreOf(l) == l.host \o l.path \o l.id \o l.trail

\* The shape (1..6) a pasted path is written in, 0 when it is none of them.
ShapeOf(p) ==
  IF \E k \in 1..Len(ShapePaths) : p \in ShapePaths[k]
    THEN CHOOSE k \in 1..Len(ShapePaths) : p \in ShapePaths[k]
    ELSE 0

\* The pattern that finds an identifier written in shape k: a /uc?id= link is
\* found by the id= pattern already.
PatternOfShape(k) == IF k = 6 THEN 5 ELSE k

\* The pattern that finds the identifier K of a trail, 0 when it holds none.
PatternOfTrail(t) ==
  IF t = TrailFile THEN 1
  ELSE IF t = TrailSlides THEN 2
  ELSE IF t = TrailQuery THEN 5
  ELSE 0

\* The identifier the ordered patterns are to find in a pasted link: that of
\* the earlier pattern, and the leftmost one for one pattern.
ExpectedId(l) ==
  LET kp == PatternOfShape(ShapeOf(l.path))
      kt == PatternOfTrail(l.trail)
  IN  IF l.id = <<>> \/ (kp = 0 /\ kt = 0) THEN Null
      ELSE IF kt # 0 /\ (kp = 0 \/ kt < kp) THEN Str(<<"K">>)
      ELSE Str(l.id)

SlidesPptx(x) == <<"h", "t", "t", "p", "s", ":", "/", "/", "d", "o", "c", "s", ".", "g", "o", "o", "g", "l", "e", ".", "c", "o", "m", "/", "p", "r", "e", "s", "e", "n", "t", "a", "t", "i", "o", "n", "/", "d", "/">> \o x \o <<"/", "e", "x", "p", "o", "r", "t", "/", "p", "p", "t", "x">>
SlidesPdf(x) == <<"h", "t", "t", "p", "s", ":", "/", "/", "d", "o", "c", "s", ".", "g", "o", "o", "g", "l", "e", ".", "c", "o", "m", "/", "p", "r", "e", "s", "e", "n", "t", "a", "t", "i", "o", "n", "/", "d", "/">> \o x \o <<"/", "e", "x", "p", "o", "r", "t", "/", "p", "d", "f">>
SlidesEmbedUrl(x) ==
  <<"h", "t", "t", "p", "s", ":", "/", "/", "d", "o", "c", "s", ".", "g", "o", "o", "g", "l", "e", ".", "c", "o", "m", "/", "p", "r", "e", "s", "e", "n", "t", "a", "t", "i", "o", "n", "/", "d", "/">> \o x
    \o <<"/", "e", "m", "b", "e", "d", "?", "s", "t", "a", "r", "t", "=", "f", "a", "l", "s", "e", "&", "l", "o", "o", "p", "=", "f", "a", "l", "s", "e", "&", "d", "e", "l", "a", "y", "m", "s", "=", "3", "0", "0", "0">>
DocumentPdf(x) == <<"h", "t", "t", "p", "s", ":", "/", "/", "d", "o", "c", "s", ".", "g", "o", "o", "g", "l", "e", ".", "c", "o", "m", "/", "d", "o", "c", "u", "m", "e", "n", "t", "/", "d", "/">> \o x \o <<"/", "e", "x", "p", "o", "r", "t", "?", "f", "o", "r", "m", "a", "t", "=", "p", "d", "f">>
DirectDownload(x) == <<"h", "t", "t", "p", "s", ":", "/", "/", "d", "r", "i", "v", "e", ".", "g", "o", "o", "g", "l", "e", ".", "c", "o", "m", "/", "u", "c", "?", "e", "x", "p", "o", "r", "t", "=", "d", "o", "w", "n", "l", "o", "a", "d", "&", "i", "d", "=">> \o x
DirectView(x) == <<"h", "t", "t", "p", "s", ":", "/", "/", "d", "r", "i", "v", "e", ".", "g", "o", "o", "g", "l", "e", ".", "c", "o", "m", "/", "u", "c", "?", "e", "x", "p", "o", "r", "t", "=", "v", "i", "e", "w", "&", "i", "d", "=">> \o x
GviewPrefix == <<"h", "t", "t", "p", "s", ":", "/", "/", "d", "o", "c", "s", ".", "g", "o", "o", "g", "l", "e", ".", "c", "o", "m", "/", "g", "v", "i", "e", "w", "?", "e", "m", "b", "e", "d", "d", "e", "d", "=", "t", "r", "u", "e", "&", "u", "r", "l", "=">>
OfficePrefix == <<"h", "t", "t", "p", "s", ":", "/", "/", "v", "i", "e", "w", ".", "o", "f", "f", "i", "c", "e", "a", "p", "p", "s", ".", "l", "i", "v", "e", ".", "c", "o", "m", "/", "o", "p", "/", "e", "m", "b", "e", "d", ".", "a", "s", "p", "x", "?", "s", "r", "c", "=">>

StartsWith(s, p) == Len(p) <= Len(s) /\ SubSeq(s, 1, Len(p)) = p

----------------------------------------------------------------------------
(* Claims *)

\* C1: convertLink is total: for every input and every media type the call
\* returns a ConvertResult and no exception escapes; a failure is a populated
\* error field, and a result without error has exportUrl and previewUrl.
C1_Total ==
  Rendered =>
    /\ ~Threw(r)
    /\ \/ IsError(r) /\ r.error # ""
       \/ /\ Has(r, "exportUrl") /\ r.exportUrl # <<>>
          /\ Has(r, "previewUrl") /\ r.previewUrl # <<>>

\* C2: in the convertLink result and in the displayed result (after the ppt
\* alternate-viewer override), an error comes with no exportUrl and no
\* previewUrl; an empty or whitespace-only input yields a non-empty error.
C2_ErrorExcludesUrls ==
  Rendered =>
    /\ \A res \in {r, result} :
         IsError(res) => ~Has(res, "exportUrl") /\ ~Has(res, "previewUrl")
    /\ (\A i \in 1..Len(input) : input[i] \in WhiteSpace) =>
         \A res \in {r, result} :
           /\ IsError(res) /\ res.error # ""
           /\ ~Has(res, "exportUrl") /\ ~Has(res, "previewUrl")

C2_Witness ==
  /\ Rendered
  /\ input # <<>>
  /\ \A i \in 1..Len(input) : input[i] \in WhiteSpace
  /\ type = "ppt" /\ forceMsViewer
  /\ IsError(result) /\ result.error = EmptyInputError

\* C3: for every media type, a Google-hosted input in which no identifier
\* pattern matches returns the malformed-Google-link error, never the
\* direct-URL result whose exportUrl is the input.
C3_MalformedGoogleLink ==
  (Rendered /\ isProbablyGoogleLink(input) /\ ~Truthy(extractGoogleFileId(input))) =>
    /\ r = [error |-> MalformedGoogleError]
    /\ result = r
    /\ ~Has(r, "exportUrl")

C3_Witness ==
  /\ Rendered
  /\ pasted.host \in GoogleHosts /\ pasted.path = <<"/", "w", "e", "i", "r", "d", "/">> /\ pasted.trail = <<>>
  /\ type = "image"
  /\ r = [error |-> MalformedGoogleError]

\* C4: for a Google-hosted input, a result without error has a fileId that is
\* a non-empty string over [a-zA-Z0-9_-], and exportUrl, embedUrl and
\* previewUrl are built from that fileId.
C4_FileIdPopulated ==
  (Rendered /\ isProbablyGoogleLink(input) /\ Resolved(r)) =>
    /\ Has(r, "fileId") /\ r.fileId # <<>>
    /\ \A i \in 1..Len(r.fileId) : r.fileId[i] \in IdClass
    /\ Has(r, "exportUrl") /\ Has(r, "previewUrl")
    /\ r.exportUrl \in { SlidesPptx(r.fileId), SlidesPdf(r.fileId), DocumentPdf(r.fileId),
                         DirectDownload(r.fileId), DirectView(r.fileId) }
    /\ Has(r, "embedUrl") => r.embedUrl = SlidesEmbedUrl(r.fileId)
    /\ \/ r.previewUrl = SlidesEmbedUrl(r.fileId)
       \/ r.previewUrl = r.exportUrl
       \/ r.previewUrl = GviewPrefix \o encodeURIComponent(r.exportUrl).str

C4_Witness ==
  /\ Rendered /\ type = "pdf"
  /\ pasted.host \in GoogleHosts /\ pasted.trail = TrailEdit
  /\ Resolved(r) /\ r.fileId = pasted.id /\ Len(r.fileId) = MaxIdLen

C6_EarliestPatternWins ==
  Rendered => extractGoogleFileId(input) = ExpectedId(pasted)

C6_Witness ==
  /\ Rendered
  /\ ShapeOf(pasted.path) = 5 /\ pasted.trail = TrailFile
  /\ pasted.id # <<"K">>
  /\ extractGoogleFileId(input) = Str(<<"K">>)

\* C7: for a Google-hosted input with extracted id X and type pdf, exportUrl
\* is the Slides pdf export if the lowercased input contains
\* docs.google.com/presentation, else the Document pdf export if it contains
\* docs.google.com/document, and otherwise (spreadsheets included) the Drive
\* direct download.
C7_PdfExportThreeWay ==
  (Rendered /\ type = "pdf" /\ isProbablyGoogleLink(input)
     /\ Truthy(extractGoogleFileId(input))) =>
    LET X == extractGoogleFileId(input).str
        lower == toLowerCase(input)
    IN  /\ Has(r, "exportUrl")
        /\ r.exportUrl =
             IF includes(lower, <<"d", "o", "c", "s", ".", "g", "o", "o", "g", "l", "e", ".", "c", "o", "m", "/", "p", "r", "e", "s", "e", "n", "t", "a", "t", "i", "o", "n">>) THEN SlidesPdf(X)
             ELSE IF includes(lower, <<"d", "o", "c", "s", ".", "g", "o", "o", "g", "l", "e", ".", "c", "o", "m", "/", "d", "o", "c", "u", "m", "e", "n", "t">>) THEN DocumentPdf(X)
             ELSE DirectDownload(X)

C7_Witness ==
  /\ Rendered /\ type = "pdf"
  /\ pasted.host = <<"H", "T", "T", "P", "S", ":", "/", "/", "D", "o", "c", "s", ".", "G", "o", "o", "g", "l", "e", ".", "C", "O", "M">>
  /\ pasted.path = <<"/", "d", "o", "c", "u", "m", "e", "n", "t", "/", "d", "/">> /\ pasted.trail = TrailEdit
  /\ r.exportUrl = DocumentPdf(pasted.id)

\* C8: for type pdf and every input that resolves without error, previewUrl
\* is the generic document viewer applied to the exportUrl of the same
\* result: the gview prefix followed by the percent-encoded export URL.
C8_PdfPreviewOfExport ==
  (Rendered /\ type = "pdf" /\ Resolved(r)) =>
    /\ Has(r, "exportUrl") /\ Has(r, "previewUrl")
    /\ r.previewUrl = GviewPrefix \o encodeURIComponent(r.exportUrl).str

C8_Witness ==
  /\ Rendered /\ type = "pdf"
  /\ pasted.path = <<"/", "d", "o", "c", "u", "m", "e", "n", "t", "/", "d", "/">> /\ pasted.id = <<"Q", "b">>
  /\ Resolved(r)
  /\ r.previewUrl =
       <<"h", "t", "t", "p", "s", ":", "/", "/", "d", "o", "c", "s", ".", "g", "o", "o", "g", "l", "e", ".", "c", "o", "m", "/", "g", "v", "i", "e", "w", "?", "e", "m", "b", "e", "d", "d", "e", "d", "=", "t", "r", "u", "e", "&", "u", "r", "l", "=", "h", "t", "t", "p", "s", "%", "3", "A", "%", "2", "F", "%", "2", "F", "d", "o", "c", "s", ".", "g", "o", "o", "g", "l", "e", ".", "c", "o", "m", "%", "2", "F", "d", "o", "c", "u", "m", "e", "n", "t", "%", "2", "F", "d", "%", "2", "F", "Q", "b", "%", "2", "F", "e", "x", "p", "o", "r", "t", "%", "3", "F", "f", "o", "r", "m", "a", "t", "%", "3", "D", "p", "d", "f">>

\* C9: for a Google-hosted input with extracted id X and type ppt,
\* convertLink returns the pptx export of X as exportUrl and the Slides embed
\* of X as both previewUrl and embedUrl; the office viewer is never the
\* previewUrl convertLink picks for a Google link.
C9_PptExportAndEmbed ==
  (Rendered /\ type = "ppt" /\ isProbablyGoogleLink(input)
     /\ Truthy(extractGoogleFileId(input))) =>
    LET X == extractGoogleFileId(input).str
    IN  /\ Has(r, "exportUrl") /\ Has(r, "previewUrl") /\ Has(r, "embedUrl")
        /\ r.exportUrl = SlidesPptx(X)
        /\ r.embedUrl = SlidesEmbedUrl(X)
        /\ r.previewUrl = r.embedUrl
        /\ ~StartsWith(r.previewUrl, OfficePrefix)

C9_Witness ==
  /\ Rendered /\ type = "ppt"
  /\ pasted.path = <<"/", "p", "r", "e", "s", "e", "n", "t", "a", "t", "i", "o", "n", "/", "d", "/">> /\ pasted.trail = TrailEdit
  /\ r.exportUrl = SlidesPptx(pasted.id)
  /\ r.previewUrl = SlidesEmbedUrl(pasted.id)

\* C10 as claimed: for a non-empty input U that does not contain
\* drive.google.com or docs.google.com in any casing, as pasted, and a type
\* among image, video, audio, convertLink returns exportUrl = U and
\* previewUrl = U unchanged, with no error, no fileId and no embedUrl.
C10_Claimed ==
  (Rendered /\ type \in MediaTypes /\ input # <<>>
     /\ ~includes(toLowerCase(input), <<"d", "r", "i", "v", "e", ".", "g", "o", "o", "g", "l", "e", ".", "c", "o", "m">>)
     /\ ~includes(toLowerCase(input), <<"d", "o", "c", "s", ".", "g", "o", "o", "g", "l", "e", ".", "c", "o", "m">>)) =>
    /\ Has(r, "exportUrl") /\ r.exportUrl = input
    /\ Has(r, "previewUrl") /\ r.previewUrl = input
    /\ ~IsError(r) /\ ~Has(r, "fileId") /\ ~Has(r, "embedUrl")

\* C10 as amended: for an input whose text without the whitespace around it,
\* U, is non-empty and does not contain drive.google.com or docs.google.com
\* in any casing, and a type among image, video, audio, convertLink returns
\* exportUrl = U and previewUrl = U, with no error, no fileId and no embedUrl.
C10_DirectPassThrough ==
  LET U == CoreOf(pasted)
  IN  (Rendered /\ type \in MediaTypes /\ U # <<>>
         /\ ~includes(toLowerCase(U), <<"d", "r", "i", "v", "e", ".", "g", "o", "o", "g", "l", "e", ".", "c", "o", "m">>)
         /\ ~includes(toLowerCase(U), <<"d", "o", "c", "s", ".", "g", "o", "o", "g", "l", "e", ".", "c", "o", "m">>)) =>
        /\ Has(r, "exportUrl") /\ r.exportUrl = U
        /\ Has(r, "previewUrl") /\ r.previewUrl = U
        /\ ~IsError(r) /\ ~Threw(r) /\ ~Has(r, "fileId") /\ ~Has(r, "embedUrl")

C10_Witness ==
  /\ Rendered /\ type = "video"
  /\ pasted.lead # <<>> /\ pasted.tail # <<>>
  /\ pasted.host = <<"h", "t", "t", "p", "s", ":", "/", "/", "e", "x", "a", "m", "p", "l", "e", ".", "c", "o", "m", "/", "a", " ", "b", ".", "p", "n", "g">>
  /\ r.exportUrl = pasted.host /\ r.previewUrl = pasted.host
  /\ r.exportUrl # input


\* The notes of a result, none when the field is absent.
NotesOf(res) == IF Has(res, "notes") THEN res.notes ELSE <<>>

\* C11: for a ppt with the alternate-viewer toggle on and an input that
\* resolves without error, the displayed result has the office viewer of the
\* export URL as preview, the resolver's notes with exactly one note appended
\* at the end, and the exportUrl, embedUrl and fileId of the convertLink
\* result; with the toggle off or another type the displayed result is the
\* convertLink result.
C11_ViewerOverrideFrame ==
  Rendered =>
    IF type = "ppt" /\ forceMsViewer
      THEN Resolved(r) =>
             /\ Resolved(result)
             /\ Has(result, "previewUrl")
             /\ result.previewUrl = OfficePrefix \o encodeURIComponent(r.exportUrl).str
             /\ Len(result.notes) = Len(NotesOf(r)) + 1
             /\ SubSeq(result.notes, 1, Len(NotesOf(r))) = NotesOf(r)
             /\ \A k \in {"exportUrl", "embedUrl", "fileId"} :
                  /\ Has(result, k) <=> Has(r, k)
                  /\ Has(r, k) => result[k] = r[k]
      ELSE result = r

\* A Google ppt link rendered with the toggle on: the preview is replaced, the
\* Slides embed stays in embedUrl.
C11_Witness ==
  /\ Rendered
  /\ type = "ppt" /\ forceMsViewer
  /\ Resolved(r) /\ Has(r, "embedUrl") /\ Has(r, "notes")
  /\ result.previewUrl # r.previewUrl
  /\ result.embedUrl = r.embedUrl


----------------------------------------------------------------------------
(* Reading a viewer URL back: the query parameter that carries the file    *)
(* URL, and decodeURIComponent.                                            *)

\* The value of the query parameter name of a URL: what follows the first
\* ?name= or &name= up to the next & or #; Null when there is none.
QueryParam(url, name) ==
  LET key == name \o <<"=">>
      starts == { i \in 1..Len(url) :
                    /\ url[i] \in {"?", "&"}
                    /\ i + Len(key) <= Len(url)
                    /\ \A k \in 1..Len(key) : url[i + k] = key[k] }
  IN  IF starts = {} THEN Null
      ELSE LET i == CHOOSE i \in starts : \A j \in starts : i <= j
               from == i + Len(key) + 1
               stops == { j \in from..Len(url) : url[j] \in {"&", "#"} }
               to == IF stops = {} THEN Len(url)
                     ELSE (CHOOSE j \in stops : \A k \in stops : j <= k) - 1
           IN  Str(SubSeq(url, from, to))

IsHex(c) == \E k \in 1..Len(HexDigits) : c \in {HexDigits[k], LowerOf(HexDigits[k])}

HexVal(c) ==
  (CHOOSE k \in 1..Len(HexDigits) : c \in {HexDigits[k], LowerOf(HexDigits[k])}) - 1

\* The byte written %XX at position i.
ByteAt(s, i) == HexVal(s[i + 1]) * 16 + HexVal(s[i + 2])

IsEscape(s, i) ==
  i >= 1 /\ i + 2 <= Len(s) /\ s[i] = "%" /\ IsHex(s[i + 1]) /\ IsHex(s[i + 2])

\* The code unit of a numeric value.
UnitOf(code) ==
  IF code >= 32 /\ code <= 126 THEN Ascii[code - 31]
  ELSE CASE code = 9 -> "\t"
         [] code = 10 -> "\n"
         [] code = 13 -> "\r"
         [] code = 160 -> "U+00A0"
         [] code = 233 -> "U+00E9"
         [] code = 65279 -> "U+FEFF"
         [] code = 55357 -> "U+D83D"
         [] code = 56832 -> "U+DE00"
         [] OTHER -> "U+????"

\* The number of continuation bytes a UTF-8 lead byte announces.
Continuations(b) ==
  IF b < 128 THEN 0 ELSE IF b < 224 THEN 1 ELSE IF b < 240 THEN 2 ELSE 3

IsContinuation(s, i) == IsEscape(s, i) /\ ByteAt(s, i) >= 128 /\ ByteAt(s, i) < 192

\* A percent sign that starts no escape, a lead byte without its continuation
\* bytes, or a continuation byte that follows no multi-byte escape:
\* decodeURIComponent throws a URIError.
Malformed(s) ==
  \E i \in 1..Len(s) :
    /\ s[i] = "%"
    /\ \/ ~IsEscape(s, i)
       \/ /\ ~IsContinuation(s, i)
          /\ \/ ByteAt(s, i) >= 248
             \/ \E n \in 1..Continuations(ByteAt(s, i)) : ~IsContinuation(s, i + 3 * n)
       \/ /\ IsContinuation(s, i)
          /\ ~(IsEscape(s, i - 3) /\ ByteAt(s, i - 3) >= 128)

\* What position i of a well-formed s adds to its decoding: the code units of
\* the code point whose UTF-8 bytes start there, nothing for the rest of an
\* escape sequence, the character itself otherwise.
DecodeAt(s, i) ==
  IF s[i] = "%"
    THEN LET b == ByteAt(s, i)
             c(n) == ByteAt(s, i + 3 * n) - 128
         IN  IF b < 128 THEN <<UnitOf(b)>>
             ELSE IF b < 192 THEN <<>>
             ELSE IF b < 224 THEN <<UnitOf((b - 192) * 64 + c(1))>>
             ELSE IF b < 240 THEN <<UnitOf((b - 224) * 4096 + c(1) * 64 + c(2))>>
             ELSE LET cp == (b - 240) * 262144 + c(1) * 4096 + c(2) * 64 + c(3)
                  IN  <<UnitOf(55296 + ((cp - 65536) \div 1024)),
                        UnitOf(56320 + ((cp - 65536) % 1024))>>
  ELSE IF (i > 1 /\ s[i - 1] = "%") \/ (i > 2 /\ s[i - 2] = "%") THEN <<>>
  ELSE <<s[i]>>

RECURSIVE Decode(_, _, _)
Decode(s, lo, hi) ==
  IF lo > hi THEN <<>>
  ELSE IF lo = hi THEN DecodeAt(s, lo)
  ELSE LET mid == (lo + hi) \div 2
       IN  Decode(s, lo, mid) \o Decode(s, mid + 1, hi)

\* decodeURIComponent(s): the decoded string, or threw (a URIError).
decodeURIComponent(s) ==
  IF Malformed(s)
    THEN [threw |-> TRUE, str |-> <<>>]
    ELSE [threw |-> FALSE, str |-> Decode(s, 1, Len(s))]

\* The characters that would end or split a query parameter value.
QueryDelimiters == {"&", "?", "=", "#"}

\* out is the viewer URL made of prefix and a parameter value that decodes to
\* u and holds no query delimiter; name is the parameter the prefix ends in.
RoundTrips(out, prefix, name, u) ==
  LET v == QueryParam(out, name)
  IN  /\ StartsWith(out, prefix)
      /\ ~v.isNull
      /\ v.str = SubSeq(out, Len(prefix) + 1, Len(out))
      /\ \A i \in 1..Len(v.str) : v.str[i] \notin QueryDelimiters
      /\ ~decodeURIComponent(v.str).threw
      /\ decodeURIComponent(v.str).str = u

\* The page called a viewer builder on the pasted URL: a link that is not
\* Google's, for a ppt or a pdf.
ViewerOfInput ==
  /\ Rendered
  /\ type \in {"ppt", "pdf"}
  /\ trim(input) # <<>>
  /\ ~isProbablyGoogleLink(input)

\* Every viewer URL a result holds as its preview reads back as the export
\* URL the viewer was built for.
ViewerOutputsRoundTrip ==
  \A res \in {r, result} :
    Resolved(res) /\ Has(res, "previewUrl") =>
      /\ StartsWith(res.previewUrl, GviewPrefix) =>
           RoundTrips(res.previewUrl, GviewPrefix, <<"u", "r", "l">>, res.exportUrl)
      /\ StartsWith(res.previewUrl, OfficePrefix) =>
           RoundTrips(res.previewUrl, OfficePrefix, <<"s", "r", "c">>, res.exportUrl)

\* C12: for every URL u handed to the document viewer or the office viewer,
\* the builder returns a URL whose file parameter (url= of the document
\* viewer, src= of the office viewer) decodes with decodeURIComponent to u
\* exactly, and whose encoded value holds no '&', '?', '=' or '#'.
C12_EncodingRoundTrip ==
  Rendered =>
    /\ ViewerOfInput =>
         /\ ~Threw(r)
         /\ Has(r, "previewUrl")
         /\ r.exportUrl = trim(input)
         /\ StartsWith(r.previewUrl, IF type = "ppt" THEN OfficePrefix ELSE GviewPrefix)
    /\ ViewerOutputsRoundTrip


\* C14: for a Google-hosted input with extracted id X, exportUrl and
\* previewUrl are one string: the uc?export=view link of X for an image, the
\* uc?export=download link of X for a video or an audio, whichever Google
\* product the link is of.
C14_MediaDirectLinks ==
  (Rendered /\ type \in MediaTypes /\ isProbablyGoogleLink(input)
     /\ Truthy(ExpectedId(pasted))) =>
    LET X == ExpectedId(pasted).str
        url == IF type = "image" THEN DirectView(X) ELSE DirectDownload(X)
    IN  /\ Resolved(r)
        /\ r.exportUrl = url
        /\ r.previewUrl = url
        /\ result = r

\* A Sheets link converted as an image.
C14_Witness ==
  /\ Rendered /\ type = "image"
  /\ pasted.host \in GoogleHosts
  /\ pasted.path = <<"/", "s", "p", "r", "e", "a", "d", "s", "h", "e", "e", "t", "s", "/", "d", "/">>
  /\ pasted.trail = TrailEdit
  /\ r.exportUrl = DirectView(pasted.id)
  /\ r.previewUrl = r.exportUrl


\* The loop of extractGoogleFileId run over a list ps of patterns, from its
\* k-th on.
RECURSIVE FirstOf(_, _, _)
FirstOf(url, ps, k) ==
  IF k > Len(ps) THEN Null
  ELSE LET m == match(url, ps[k])
       IN  IF Truthy(m) THEN m ELSE FirstOf(url, ps, k + 1)

\* extractGoogleFileId with the list ps in place of its six patterns.
ExtractWith(ps, in) ==
  LET url == trim(in)
  IN  IF url = <<>> THEN Null ELSE FirstOf(url, ps, 1)

\* C15: the sixth pattern (/uc?id=) is redundant: whenever it matches, the
\* fifth ([?&]id=) matches too, so an earlier pattern decides the result, and
\* extractGoogleFileId without the sixth pattern returns the same identifier
\* for every input.
C15_SixthPatternRedundant ==
  Rendered =>
    LET url == trim(input)
        six == extractGoogleFileId(input)
        five == ExtractWith(SubSeq(patterns, 1, 5), input)
    IN  /\ Truthy(match(url, patterns[6])) =>
             /\ Truthy(match(url, patterns[5]))
             /\ \E k \in 1..5 :
                  /\ Truthy(match(url, patterns[k]))
                  /\ six = match(url, patterns[k])
        /\ six = five
        /\ (isProbablyGoogleLink(input) /\ Has(r, "fileId")) => r.fileId = five.str

\* A /uc?id= link: the sixth pattern matches it, and the identifier is
\* extracted.
C15_Witness ==
  /\ Rendered
  /\ pasted.host \in GoogleHosts
  /\ pasted.path = <<"/", "u", "c", "?", "i", "d", "=">>
  /\ pasted.trail = TrailEdit
  /\ Truthy(match(trim(input), patterns[6]))
  /\ Has(r, "fileId") /\ r.fileId = pasted.id


\* The note the alternate-viewer override appends.
OverrideNote == "Microsoft viewer enabled for preview."

HasOverrideNote(res) ==
  Has(res, "notes") /\ \E i \in 1..Len(res.notes) : res.notes[i] = OverrideNote

\* C16: through any sequence of type selections, toggle clicks and input
\* edits, the displayed result of a type other than ppt is the convertLink
\* result without the office-viewer override, also in the render that comes
\* before the reset effect; once that effect has run the toggle is off; and a
\* return to ppt shows the page with the toggle off and the preview
\* convertLink picked, the Slides embed for a Google link.
C16_OverrideOnlyForPpt ==
  /\ []((Mounted /\ type # "ppt") => (result = r /\ ~HasOverrideNote(result)))
  /\ []((Mounted /\ type # "ppt" /\ ~effectPending) => ~forceMsViewer)
  /\ [][(type # "ppt" /\ type' = "ppt" /\ Mounted') =>
          /\ ~forceMsViewer'
          /\ result' = r'
          /\ Has(r', "embedUrl") => result'.previewUrl = r'.embedUrl]_vars

\* The render between a switch away from ppt and the reset effect: the toggle
\* is still on and the result shows no override.
C16_Witness ==
  /\ type = "pdf"
  /\ forceMsViewer
  /\ effectPending
  /\ Resolved(result)
  /\ StartsWith(result.previewUrl, GviewPrefix)

\* C17: in every interleaving of copies (clipboard write fulfilled, rejected
\* or not available), reset clicks and timeouts: a copy that completes sets
\* the copied indicator; with no timeout left and no copy under way the
\* indicator is off; reset empties the input and clears the indicator and
\* leaves type and forceMsViewer as they are.
C17_CopiedIndicator ==
  /\ []((Mounted /\ timers = 0 /\ writes = 0) => ~copied)
  /\ [][(Mounted /\ (timers' > timers \/ writes' < writes)) => copied']_vars
  /\ [][reset =>
          /\ input' = <<>>
          /\ ~copied'
          /\ type' = type
          /\ forceMsViewer' = forceMsViewer]_vars

\* The indicator is on after a first copy while a second clipboard write is
\* still under way.
C17_Witness ==
  /\ Mounted
  /\ copied
  /\ timers > 0
  /\ writes > 0

====
